---- MODULE Spec2Model ----
(***************************************************************************)
(* A model of the truffle front end (src/src/parser.rs, src/src/utils.rs): *)
(* the type descriptor parser, the operator model, the expression builder, *)
(* the function / code-block builder and the scope stacks.                 *)
(***************************************************************************)
EXTENDS Integers, Sequences, FiniteSets

VARIABLES
    dt,           \* DataType::new: the text handed in, a sequence of characters
    dtOut,        \* DataType::new: what the call produced
    vars,         \* VarLst.vars: a stack of name -> DataType maps
    objects,      \* DeclaredObjects.objects: a stack of sequences
    log,          \* the VarLst operations applied so far, oldest first
    nops,         \* scope-stack operations applied so far (both structures)
    got,          \* the answer of the last VarLst::get / DeclaredObjects::contains
    panicked,     \* a scope-stack operation hit unwrap() on None
    span,         \* expression builder: the token slice handed in
    exprOut,      \* expression builder: what generate_expression produced
    s,            \* generate_function: the token slice
    pc,           \* generate_function: where the builder stands
    i,            \* generate_function / generate_code_block: the token index
    base,         \* offset of the code block's slice in s
    func,         \* the Function under construction
    variable_lst, \* generate_code_block's local HashMap
    iters,        \* iterations of generate_code_block's loop run so far
    err           \* the panic that ended the build, "none" otherwise

typeVars  == <<dt, dtOut>>
scopeVars == <<vars, objects, log, nops, got, panicked>>
exprVars  == <<span, exprOut>>
fnVars    == <<s, pc, i, base, func, variable_lst, iters, err>>
vars_all  == <<dt, dtOut, vars, objects, log, nops, got, panicked, span, exprOut,
               s, pc, i, base, func, variable_lst, iters, err>>

(***************************************************************************)
(* Bounds of the model.                                                    *)
(***************************************************************************)
MaxBrackets == 6
MaxOps == 4
MaxSpan == 5
MaxChunks == 2
MaxIters == 12

(***************************************************************************)
(* DataType (parser.rs 8-54).  Vec nests around a scalar, so a type is the *)
(* scalar and the number of Vec levels around it.                          *)
(***************************************************************************)
Scalars == {"I64", "U64", "F64", "U8", "Bool", "Char", "String"}

Scalar(b) == [base |-> b, depth |-> 0]

Vec(inner) == [base |-> inner.base, depth |-> inner.depth + 1]

NoType == [base |-> "none", depth |-> 0]

is_numeric(t) == t \in {Scalar("I64"), Scalar("U64"), Scalar("F64"), Scalar("U8")}

\* the keywords DataType::new matches, as character sequences
Keyword(k) ==
    CASE k = "int"    -> <<"i", "n", "t">>
      [] k = "uint"   -> <<"u", "i", "n", "t">>
      [] k = "float"  -> <<"f", "l", "o", "a", "t">>
      [] k = "bool"   -> <<"b", "o", "o", "l">>
      [] k = "char"   -> <<"c", "h", "a", "r">>
      [] k = "byte"   -> <<"b", "y", "t", "e">>
      [] k = "string" -> <<"s", "t", "r", "i", "n", "g">>
      [] OTHER        -> <<"x">>

Keywords == {"int", "uint", "float", "bool", "char", "byte", "string"}

KeywordType(k) ==
    CASE k = "int"    -> Scalar("I64")
      [] k = "uint"   -> Scalar("U64")
      [] k = "float"  -> Scalar("F64")
      [] k = "bool"   -> Scalar("Bool")
      [] k = "char"   -> Scalar("Char")
      [] k = "byte"   -> Scalar("U8")
      [] k = "string" -> Scalar("String")

\* str::contains('[')
ContainsBracket(str) == \E k \in 1..Len(str) : str[k] = "["

\* str::split_once("["): the text before and after the first '['
SplitOnce(str) ==
    LET p == CHOOSE k \in 1..Len(str) :
                 str[k] = "[" /\ \A j \in 1..(k - 1) : str[j] # "["
    IN  <<SubSeq(str, 1, p - 1), SubSeq(str, p + 1, Len(str))>>

RECURSIVE WrapTimes(_, _)
WrapTimes(t, n) == IF n = 0 THEN t ELSE WrapTimes(Vec(t), n - 1)

WrapCountExclusive(brackets) == Len(brackets) \div 2

\* `for i in 0..=(brackets.len()/2)`: the number of times the loop body runs
WrapCount(brackets) == (Len(brackets) \div 2) + 1

RECURSIVE DataType_new(_)
DataType_new(str) ==
    IF \E k \in Keywords : str = Keyword(k)
    THEN [panic |-> FALSE,
          ty |-> KeywordType(CHOOSE k \in Keywords : str = Keyword(k))]
    ELSE IF ~ContainsBracket(str)
    THEN [panic |-> TRUE, ty |-> NoType]
    ELSE LET parts == SplitOnce(str)
             inner == DataType_new(parts[1])
         IN  IF inner.panic
             THEN inner
             ELSE [panic |-> FALSE, ty |-> WrapTimes(inner.ty, WrapCount(parts[2]))]

\* DataType::new on a token's text; the token texts the builders meet
TypeText(name) ==
    CASE name = "int[]" -> Keyword("int") \o <<"[", "]">>
      [] OTHER          -> Keyword(name)

(***************************************************************************)
(* Tokens (the lexer's Token: a classification and its text).              *)
(***************************************************************************)
Tok(ty, v) == [token_type |-> ty, value |-> v]

(***************************************************************************)
(* OperationType (parser.rs 56-152).                                       *)
(***************************************************************************)
ArithmeticText == {"+", "-", "*", "/", "%"}
ComparisonText == {">", "<", ">=", "<=", "==", "!="}

\* OperationType::new: Ok(op) carries the operator, named by its text; Err otherwise
OperationType_new(token) ==
    IF token.token_type = "ArithmeticOperator"
    THEN IF token.value \in ArithmeticText
         THEN [ok |-> TRUE, op |-> token.value] ELSE [ok |-> FALSE, op |-> "none"]
    ELSE IF token.token_type = "ComparisonOperator"
    THEN IF token.value \in ComparisonText
         THEN [ok |-> TRUE, op |-> token.value] ELSE [ok |-> FALSE, op |-> "none"]
    ELSE [ok |-> FALSE, op |-> "none"]

get_priority(op) ==
    IF op \in {"*", "/", "%"} THEN 10
    ELSE IF op \in {"+", "-"} THEN 9
    ELSE 8

is_arithmetic(op) == op \in {"+", "-", "/", "*", "%"}

is_comparison(op) == op \in {">", "<", ">=", "<=", "==", "!="}

(***************************************************************************)
(* Values (parser.rs 154-230): Literal, Variable and Operation nodes.      *)
(***************************************************************************)
Literal(value, ty) == [kind |-> "Literal", value |-> value, dtype |-> ty]

Variable(name, ty) == [kind |-> "Variable", name |-> name, dtype |-> ty]

Operation(opd_1, opd_2, op, ret_type) ==
    [kind |-> "Operation", opd_1 |-> opd_1, opd_2 |-> opd_2, op |-> op,
     ret_type |-> ret_type]

NoValue == [kind |-> "none"]

\* Value::dtype of the three implementations
dtype(v) == IF v.kind = "Operation" THEN v.ret_type ELSE v.dtype

\* a builder's outcome: the value and the tokens consumed, or the panic that ended it
Built(v, n) == [err |-> "none", val |-> v, n |-> n]

Panic(kind) == [err |-> kind, val |-> NoValue, n |-> 0]

(***************************************************************************)
(* HashMap<String, DataType>: a function on the names it holds.            *)
(***************************************************************************)
EmptyMap == <<>>

MapInsert(m, k, v) == [n \in (DOMAIN m) \cup {k} |-> IF n = k THEN v ELSE m[n]]

MapGet(m, k) == IF k \in DOMAIN m THEN [some |-> TRUE, ty |-> m[k]]
                ELSE [some |-> FALSE, ty |-> NoType]

(***************************************************************************)
(* Operation (parser.rs 232-349).                                          *)
(***************************************************************************)
gen_return_t_no_float_rule(op, t1, t2) ==
    IF is_comparison(op) THEN [err |-> "none", ty |-> Scalar("Bool")]
    ELSE IF t1 # t2 THEN [err |-> "TypeMismatch", ty |-> NoType]
    ELSE [err |-> "none", ty |-> t1]

\* gen_return_t on the operator and the operands' types: the ret_type it sets, or
\* the assertion that fails
gen_return_t(op, t1, t2) ==
    IF is_comparison(op) THEN [err |-> "none", ty |-> Scalar("Bool")]
    ELSE IF t1 = Scalar("F64") \/ t2 = Scalar("F64")
    THEN IF ~is_numeric(t1) \/ ~is_numeric(t2)
         THEN [err |-> "InvalidFloatOperand", ty |-> NoType]
         ELSE [err |-> "none", ty |-> Scalar("F64")]
    ELSE IF t1 # t2 THEN [err |-> "TypeMismatch", ty |-> NoType]
    ELSE [err |-> "none", ty |-> t1]

OperatorTokens == {"ArithmeticOperator", "ComparisonOperator"}

EndTokens == {"NewLine", "OpenCurlyBrace", "CloseCurlyBrace", "SemiColon", "Comma"}

ValueTokens == {"FloatLiteral", "StringLiteral", "BooleanLiteral", "IntegerLiteral",
                "VariableName"}

\* the index of the first token of `tokens` whose type is in `types`, Len + 1 if none
FirstOf(tokens, types) ==
    IF \E k \in 1..Len(tokens) : tokens[k].token_type \in types
    THEN CHOOSE k \in 1..Len(tokens) :
             /\ tokens[k].token_type \in types
             /\ \A j \in 1..(k - 1) : tokens[j].token_type \notin types
    ELSE Len(tokens) + 1

\* the loop returns at the first operator or end token, whichever comes first
exists_inline(tokens) ==
    LET k == FirstOf(tokens, OperatorTokens \cup EndTokens)
    IN  k <= Len(tokens) /\ tokens[k].token_type \in OperatorTokens

\* extract_operation's count of the tokens before the first end token
SpanLength(tokens) == FirstOf(tokens, EndTokens) - 1

PriorityBeatsOrTies(p, op_priority) == p >= op_priority

\* `if p > op_priority` (parser.rs 328)
PriorityBeats(p, op_priority) == p > op_priority

\* the scan of extract_operation_h (parser.rs 322-333), from 0-based index k on,
\* with the op_idx and op_priority held so far; its final <<op_idx, op_priority>>
RECURSIVE ScanOperators(_, _, _, _)
ScanOperators(tokens, k, op_idx, op_priority) ==
    IF k >= Len(tokens) THEN <<op_idx, op_priority>>
    ELSE LET o == OperationType_new(tokens[k + 1])
         IN  IF o.ok /\ PriorityBeats(get_priority(o.op), op_priority)
             THEN ScanOperators(tokens, k + 1, k, get_priority(o.op))
             ELSE ScanOperators(tokens, k + 1, op_idx, op_priority)

LookupVarDefaulting(vl, var_name) ==
    IF MapGet(vl, var_name).some
    THEN Built(Variable(var_name, MapGet(vl, var_name).ty), 1)
    ELSE Built(Variable(var_name, Scalar("I64")), 1)

\* the VariableName arm of generate_expression (parser.rs 483-497)
LookupVar(vl, var_name) ==
    IF MapGet(vl, var_name).some
    THEN Built(Variable(var_name, MapGet(vl, var_name).ty), 1)
    ELSE Panic("UndefinedVariable")

\* the arms of generate_expression's match on s[0] (parser.rs 454-499)
SingleValue(tok, vl) ==
    CASE tok.token_type = "FloatLiteral"   -> Built(Literal(tok.value, Scalar("F64")), 1)
      [] tok.token_type = "IntegerLiteral" -> Built(Literal(tok.value, Scalar("I64")), 1)
      [] tok.token_type = "BooleanLiteral" -> Built(Literal(tok.value, Scalar("Bool")), 1)
      [] tok.token_type = "StringLiteral"  ->
             Built(Literal(tok.value, Vec(Scalar("U8"))), 1)
      [] tok.token_type = "VariableName"   -> LookupVar(vl, tok.value)
      [] OTHER                             -> Panic("SyntaxErrorInValue")

RECURSIVE extract_operation_h(_, _)
RECURSIVE generate_expression(_, _)

\* the Operation literal of parser.rs 339-345: opd_1 is built first, then opd_2,
\* then gen_return_t runs; the first panic ends the build
BuildOperation(tokens, op_idx, vl) ==
    LET l == extract_operation_h(SubSeq(tokens, 1, op_idx), vl)
    IN  IF l.err # "none" THEN l
        ELSE LET r == extract_operation_h(SubSeq(tokens, op_idx + 2, Len(tokens)),
                                          vl)
             IN  IF r.err # "none" THEN r
                 ELSE LET op == OperationType_new(tokens[op_idx + 1]).op
                          t  == gen_return_t(op, dtype(l.val), dtype(r.val))
                      IN  IF t.err # "none" THEN Panic(t.err)
                          ELSE Built(Operation(l.val, r.val, op, t.ty), Len(tokens))

extract_operation_h(tokens, vl) ==
    IF Len(tokens) = 1
    THEN IF tokens[1].token_type \in ValueTokens
         THEN generate_expression(SubSeq(tokens, 1, 1), vl)
         ELSE Panic("NotAValue")
    ELSE LET op_idx == ScanOperators(tokens, 0, 0, 0)[1]
         IN  IF op_idx = 0 THEN Panic("NoOperation")
             ELSE BuildOperation(tokens, op_idx, vl)

extract_operation(tokens, vl) ==
    LET length == SpanLength(tokens)
        r      == extract_operation_h(SubSeq(tokens, 1, length), vl)
    IN  IF r.err # "none" THEN r ELSE Built(r.val, length)

generate_expression(tokens, vl) ==
    IF ~exists_inline(tokens)
    THEN IF Len(tokens) = 0 THEN Panic("IndexOutOfBounds")
         ELSE SingleValue(tokens[1], vl)
    ELSE extract_operation(tokens, vl)

(***************************************************************************)
(* Inputs and idle values shared by the specifications.                    *)
(***************************************************************************)
\* all sequences over S of length at most n
SeqsUpTo(S, n) == UNION {[1..k -> S] : k \in 0..n}

NotCalled == [called |-> FALSE, err |-> "none", val |-> NoValue, n |-> 0]

NoFunction == [name |-> "", parameters |-> <<>>, body |-> <<>>]

TypeIdle == dt = <<>> /\ dtOut = [called |-> FALSE, panic |-> FALSE, ty |-> NoType]

NoAnswer == [op |-> "none", key |-> "", some |-> FALSE, ty |-> NoType]

ScopeIdle ==
    /\ vars = <<EmptyMap>>
    /\ objects = << <<>> >>
    /\ log = <<>>
    /\ nops = 0
    /\ got = NoAnswer
    /\ panicked = FALSE

ExprIdle == span = <<>> /\ exprOut = NotCalled

FnIdle ==
    /\ s = <<>>
    /\ pc = "idle"
    /\ i = 0
    /\ base = 0
    /\ func = NoFunction
    /\ iters = 0
    /\ err = "none"

(***************************************************************************)
(* SpecType: DataType::new applied to a type text.                         *)
(***************************************************************************)
TypeInputs ==
    {Keyword(k) \o suffix : k \in Keywords \cup {"other"},
                            suffix \in SeqsUpTo({"[", "]"}, MaxBrackets)}

InitType ==
    /\ dt \in TypeInputs
    /\ dtOut = [called |-> FALSE, panic |-> FALSE, ty |-> NoType]
    /\ ScopeIdle /\ ExprIdle /\ FnIdle /\ variable_lst = EmptyMap

ParseType ==
    /\ ~dtOut.called
    /\ dtOut' = [called |-> TRUE, panic |-> DataType_new(dt).panic,
                 ty |-> DataType_new(dt).ty]
    /\ UNCHANGED <<dt, scopeVars, exprVars, fnVars>>

NextType == ParseType

SpecType == InitType /\ [][NextType]_vars_all

(***************************************************************************)
(* SpecExpr: generate_expression applied to a token slice, with the table  *)
(* a code block holds when it reaches an initializer.                      *)
(***************************************************************************)
ExprAlphabet ==
    {Tok("IntegerLiteral", "2"), Tok("FloatLiteral", "1.5"),
     Tok("BooleanLiteral", "true"), Tok("VariableName", "a"),
     Tok("VariableName", "zz"), Tok("ArithmeticOperator", "+"),
     Tok("ArithmeticOperator", "*"), Tok("ComparisonOperator", "<"),
     Tok("NewLine", "\n")}

\* the table the expressions are built against: `a` declared, `zz` not
ExprTable == MapInsert(EmptyMap, "a", Scalar("U64"))

InitExpr ==
    /\ span \in SeqsUpTo(ExprAlphabet, MaxSpan)
    /\ exprOut = NotCalled
    /\ variable_lst = ExprTable
    /\ TypeIdle /\ ScopeIdle /\ FnIdle

BuildExpr ==
    /\ ~exprOut.called
    /\ LET r == generate_expression(span, variable_lst)
       IN  exprOut' = [called |-> TRUE, err |-> r.err, val |-> r.val, n |-> r.n]
    /\ UNCHANGED <<span, typeVars, scopeVars, fnVars>>

NextExpr == BuildExpr

SpecExpr == InitExpr /\ [][NextExpr]_vars_all

(***************************************************************************)
(* Claims about DataType::new (SpecType).                                  *)
(***************************************************************************)
\* d adjacent bracket pairs: "[]" d times
BracketPairs(d) == [k \in 1..(2 * d) |-> IF k % 2 = 1 THEN "[" ELSE "]"]

\* C7: for every base keyword k and every bracket depth d, DataType::new applied to
\* k followed by d adjacent "[]" pairs returns, without failing, the scalar type of
\* k wrapped in exactly d levels of Vec.
C7_BracketDepth ==
    \A k \in Keywords : \A d \in 0..(MaxBrackets \div 2) :
        (dtOut.called /\ dt = Keyword(k) \o BracketPairs(d)) =>
            /\ ~dtOut.panic
            /\ dtOut.ty = [base |-> KeywordType(k).base, depth |-> d]

C7_Witness ==
    /\ dtOut.called
    /\ dt = Keyword("byte") \o BracketPairs(2)
    /\ dtOut.ty = Vec(Vec(Scalar("U8")))

(***************************************************************************)
(* Claims about the expression builder (SpecExpr).                         *)
(***************************************************************************)
\* the tokens the builder takes as the expression: up to the first end token when
\* an operator comes first, the leading token otherwise
ExprTokens(tokens) ==
    IF exists_inline(tokens) THEN SubSeq(tokens, 1, SpanLength(tokens))
    ELSE SubSeq(tokens, 1, IF Len(tokens) = 0 THEN 0 ELSE 1)

IsOperatorToken(tok) == OperationType_new(tok).ok

\* the operator positions of a span whose priority no operator of the span exceeds
TopOperators(tokens) ==
    {k \in 1..Len(tokens) :
        /\ IsOperatorToken(tokens[k])
        /\ \A j \in 1..Len(tokens) :
               IsOperatorToken(tokens[j]) =>
                   get_priority(tokens[j].value) <= get_priority(tokens[k].value)}

\* the tree the split rule describes, without types: a leaf is its token's text
RECURSIVE SplitShape(_)
SplitShape(tokens) ==
    IF Len(tokens) = 1 THEN <<tokens[1].value>>
    ELSE IF TopOperators(tokens) = {} THEN <<"no operator">>
    ELSE LET k == CHOOSE x \in TopOperators(tokens) :
                      \A y \in TopOperators(tokens) : x <= y
         IN  <<SplitShape(SubSeq(tokens, 1, k - 1)), tokens[k].value,
               SplitShape(SubSeq(tokens, k + 1, Len(tokens)))>>

\* a built value without its types
RECURSIVE Shape(_)
Shape(v) ==
    CASE v.kind = "Literal"   -> <<v.value>>
      [] v.kind = "Variable"  -> <<v.name>>
      [] v.kind = "Operation" -> <<Shape(v.opd_1), v.op, Shape(v.opd_2)>>
      [] OTHER                -> <<"none">>

\* C3: every flat expression span of more than one token that builds is rooted at
\* the first of its operators of highest priority, with the tokens before it built
\* as the left child and those after it as the right child, recursively.
C3_SplitAtFirstHighest ==
    (exprOut.called /\ exprOut.err = "none" /\ Len(ExprTokens(span)) > 1) =>
        /\ exprOut.val.kind = "Operation"
        /\ Shape(exprOut.val) = SplitShape(ExprTokens(span))

Int2 == Tok("IntegerLiteral", "2")
VarA == Tok("VariableName", "a")
Plus == Tok("ArithmeticOperator", "+")
Times == Tok("ArithmeticOperator", "*")
Less == Tok("ComparisonOperator", "<")

\* 2 + 2 * 2 is rooted at `*`, with (2 + 2) on its left
C3_Witness ==
    /\ exprOut.called
    /\ span = <<Int2, Plus, Int2, Times, Int2>>
    /\ exprOut.err = "none"
    /\ Shape(exprOut.val) = << << <<"2">>, "+", <<"2">> >>, "*", <<"2">> >>

\* the Operation nodes of a built value
RECURSIVE OperationNodes(_)
OperationNodes(v) ==
    IF v.kind = "Operation"
    THEN {v} \cup OperationNodes(v.opd_1) \cup OperationNodes(v.opd_2)
    ELSE {}

\* the inference rule as the claim states it: the combinations it gives a type to
InferDefined(op, t1, t2) ==
    \/ op \in ComparisonText
    \/ (t1 = Scalar("F64") \/ t2 = Scalar("F64")) /\ is_numeric(t1) /\ is_numeric(t2)
    \/ t1 # Scalar("F64") /\ t2 # Scalar("F64") /\ t1 = t2

Infer(op, t1, t2) ==
    IF op \in ComparisonText THEN Scalar("Bool")
    ELSE IF t1 = Scalar("F64") \/ t2 = Scalar("F64") THEN Scalar("F64")
    ELSE t1

\* the type of a value token under the table, NoType for an undeclared name
TokenType(tok) ==
    CASE tok.token_type = "FloatLiteral"   -> Scalar("F64")
      [] tok.token_type = "IntegerLiteral" -> Scalar("I64")
      [] tok.token_type = "BooleanLiteral" -> Scalar("Bool")
      [] tok.token_type = "StringLiteral"  -> Vec(Scalar("U8"))
      [] tok.token_type = "VariableName"   -> MapGet(variable_lst, tok.value).ty
      [] OTHER                             -> NoType

\* a span `x op y` of two typed value tokens around one operator
IsBinary(tokens) ==
    /\ Len(tokens) = 3
    /\ tokens[1].token_type \in ValueTokens /\ TokenType(tokens[1]) # NoType
    /\ IsOperatorToken(tokens[2])
    /\ tokens[3].token_type \in ValueTokens /\ TokenType(tokens[3]) # NoType

\* C4: every Operation node of a built tree has the type the inference rule gives
\* its operator and operand types, and a combination the rule gives no type to
\* fails construction.
C4_ResultTypeInferred ==
    /\ (exprOut.called /\ exprOut.err = "none") =>
           \A o \in OperationNodes(exprOut.val) :
               /\ InferDefined(o.op, dtype(o.opd_1), dtype(o.opd_2))
               /\ o.ret_type = Infer(o.op, dtype(o.opd_1), dtype(o.opd_2))
    /\ (exprOut.called /\ IsBinary(span)) =>
           LET op == span[2].value
               t1 == TokenType(span[1])
               t2 == TokenType(span[3])
           IN  IF InferDefined(op, t1, t2)
               THEN exprOut.err = "none" /\ exprOut.val.ret_type = Infer(op, t1, t2)
               ELSE exprOut.err \in {"TypeMismatch", "InvalidFloatOperand"}

\* a * 2 + 1.5 with a: Unsigned64: the right operand (2 + 1.5) is Float64, and so
\* is the root
C4_Witness ==
    /\ exprOut.called
    /\ span = <<VarA, Times, Int2, Plus, Tok("FloatLiteral", "1.5")>>
    /\ exprOut.err = "none"
    /\ exprOut.val.ret_type = Scalar("F64")
    /\ exprOut.val.opd_2.ret_type = Scalar("F64")
    /\ dtype(exprOut.val.opd_1) = Scalar("U64")

\* the Variable nodes of a built value
RECURSIVE VariableNodes(_)
VariableNodes(v) ==
    CASE v.kind = "Variable"  -> {v}
      [] v.kind = "Operation" -> VariableNodes(v.opd_1) \cup VariableNodes(v.opd_2)
      [] OTHER                -> {}

\* the names of the variable-name tokens of a span that the table does not hold
UndeclaredNames(tokens) ==
    {tokens[k].value : k \in {j \in 1..Len(tokens) :
        /\ tokens[j].token_type = "VariableName"
        /\ ~MapGet(variable_lst, tokens[j].value).some}}

\* the table with every name of `names` declared as well
RECURSIVE DeclareAll(_, _)
DeclareAll(m, names) ==
    IF names = {} THEN m
    ELSE LET x == CHOOSE y \in names : TRUE
         IN  DeclareAll(MapInsert(m, x, Scalar("I64")), names \ {x})

\* every Variable node carries the type the table holds for its name
VariablesTyped ==
    (exprOut.called /\ exprOut.err = "none") =>
        \A v \in VariableNodes(exprOut.val) :
            /\ MapGet(variable_lst, v.name).some
            /\ v.dtype = MapGet(variable_lst, v.name).ty

\* C6 as stated: an expression holding a variable-name token whose name the table
\* does not hold fails with the undefined-variable condition, and every Variable
\* node of a built tree carries the type the table held for its name.
C6_UndefinedVariableCondition ==
    /\ (exprOut.called /\ UndeclaredNames(ExprTokens(span)) # {}) =>
           exprOut.err = "UndefinedVariable"
    /\ VariablesTyped

\* C6 amended: such an expression never builds; it fails with the undefined-variable
\* condition whenever it has no other defect (it builds once the name is declared),
\* and otherwise with the fatal condition met first; and every Variable node of a
\* built tree carries the type the table held for its name.
C6_UndeclaredNeverBuilds ==
    /\ (exprOut.called /\ UndeclaredNames(ExprTokens(span)) # {}) =>
           /\ exprOut.err \in {"UndefinedVariable", "NoOperation", "NotAValue",
                               "TypeMismatch", "InvalidFloatOperand"}
           /\ (generate_expression(span,
                   DeclareAll(variable_lst, UndeclaredNames(ExprTokens(span)))).err
                   = "none") => exprOut.err = "UndefinedVariable"
    /\ VariablesTyped

VarZz == Tok("VariableName", "zz")

\* a + zz * a: the undeclared zz ends the build with the undefined-variable condition
C6_Witness ==
    /\ exprOut.called
    /\ span = <<VarA, Plus, VarZz, Times, VarA>>
    /\ UndeclaredNames(ExprTokens(span)) = {"zz"}
    /\ exprOut.err = "UndefinedVariable"

\* a flat span of Signed64 operands joined by one comparison and at least one
\* arithmetic operator
ComparisonOverArithmetic(tokens) ==
    /\ Len(tokens) >= 5 /\ Len(tokens) % 2 = 1
    /\ \A k \in 1..Len(tokens) :
           IF k % 2 = 1
           THEN /\ tokens[k].token_type \in {"IntegerLiteral", "VariableName"}
                /\ TokenType(tokens[k]) = Scalar("I64")
           ELSE IsOperatorToken(tokens[k])
    /\ Cardinality({k \in 1..Len(tokens) :
                       tokens[k].token_type = "ComparisonOperator"}) = 1

\* C9: a flat span over Signed64 operands with exactly one comparison and at least
\* one arithmetic operator builds, rooted at the comparison, with result type
\* Boolean and every arithmetic operator below the root.
C9_ComparisonIsRoot ==
    (exprOut.called /\ ComparisonOverArithmetic(span)) =>
        /\ exprOut.err = "none"
        /\ exprOut.val.kind = "Operation"
        /\ is_comparison(exprOut.val.op)
        /\ exprOut.val.ret_type = Scalar("Bool")

(***************************************************************************)
(* The scope stacks of utils.rs: DeclaredObjects<T> and VarLst.            *)
(***************************************************************************)
\* Vec::pop: the last element goes; an empty Vec stays empty
VecPop(v) == IF Len(v) = 0 THEN v ELSE SubSeq(v, 1, Len(v) - 1)

DeclaredObjects_new == << <<>> >>

\* DeclaredObjects::push, given a current scope (last_mut() is Some)
DeclaredObjects_push(objs, object) ==
    [objs EXCEPT ![Len(objs)] = Append(@, object)]

DeclaredObjects_contains(objs, object) ==
    \E k \in 1..Len(objs) : \E j \in 1..Len(objs[k]) : objs[k][j] = object

VarLst_new == <<EmptyMap>>

\* VarLst::insert, given a current scope (last_mut() is Some)
VarLst_insert(vs, var, ty) == [vs EXCEPT ![Len(vs)] = MapInsert(@, var, ty)]

\* a lookup that walks the scopes outermost first, from scope k up
RECURSIVE GetForward(_, _, _)
GetForward(vs, k, var) ==
    IF k > Len(vs) THEN [some |-> FALSE, ty |-> NoType]
    ELSE IF MapGet(vs[k], var).some THEN MapGet(vs[k], var)
    ELSE GetForward(vs, k + 1, var)

VarLst_get_outermost_first(vs, var) == GetForward(vs, 1, var)

\* `for scope in self.vars.iter().rev()`, from scope k down
RECURSIVE GetRev(_, _, _)
GetRev(vs, k, var) ==
    IF k = 0 THEN [some |-> FALSE, ty |-> NoType]
    ELSE IF MapGet(vs[k], var).some THEN MapGet(vs[k], var)
    ELSE GetRev(vs, k - 1, var)

VarLst_get(vs, var) == GetRev(vs, Len(vs), var)

(***************************************************************************)
(* SpecScope: any sequence of operations on a VarLst and a DeclaredObjects *)
(* made by new().                                                          *)
(***************************************************************************)
Names == {"x", "y"}
Types == {Scalar("I64"), Scalar("F64")}
Objects == {"o1", "o2"}

InitScope ==
    /\ vars = VarLst_new
    /\ objects = DeclaredObjects_new
    /\ log = <<>>
    /\ nops = 0
    /\ got = NoAnswer
    /\ panicked = FALSE
    /\ TypeIdle /\ ExprIdle /\ FnIdle /\ variable_lst = EmptyMap

CanMutate == ~panicked /\ nops < MaxOps

Insert(var, ty) ==
    /\ CanMutate
    /\ IF Len(vars) = 0
       THEN panicked' = TRUE /\ UNCHANGED <<vars, log>>
       ELSE /\ vars' = VarLst_insert(vars, var, ty)
            /\ log' = Append(log, [op |-> "insert", var |-> var, dtype |-> ty])
            /\ UNCHANGED panicked
    /\ nops' = nops + 1
    /\ got' = NoAnswer
    /\ UNCHANGED <<objects, typeVars, exprVars, fnVars>>

Get(var) ==
    /\ ~panicked
    /\ got' = [op |-> "get", key |-> var, some |-> VarLst_get(vars, var).some,
               ty |-> VarLst_get(vars, var).ty]
    /\ UNCHANGED <<vars, objects, log, nops, panicked, typeVars, exprVars, fnVars>>

PushScope ==
    /\ CanMutate
    /\ vars' = Append(vars, EmptyMap)
    /\ log' = Append(log, [op |-> "push_scope", var |-> "", dtype |-> NoType])
    /\ nops' = nops + 1
    /\ got' = NoAnswer
    /\ UNCHANGED <<objects, panicked, typeVars, exprVars, fnVars>>

PopScope ==
    /\ CanMutate
    /\ vars' = VecPop(vars)
    /\ log' = Append(log, [op |-> "pop_scope", var |-> "", dtype |-> NoType])
    /\ nops' = nops + 1
    /\ got' = NoAnswer
    /\ UNCHANGED <<objects, panicked, typeVars, exprVars, fnVars>>

ObjPush(object) ==
    /\ CanMutate
    /\ IF Len(objects) = 0
       THEN panicked' = TRUE /\ UNCHANGED objects
       ELSE objects' = DeclaredObjects_push(objects, object) /\ UNCHANGED panicked
    /\ nops' = nops + 1
    /\ got' = NoAnswer
    /\ UNCHANGED <<vars, log, typeVars, exprVars, fnVars>>

ObjContains(object) ==
    /\ ~panicked
    /\ got' = [op |-> "contains", key |-> object,
               some |-> DeclaredObjects_contains(objects, object), ty |-> NoType]
    /\ UNCHANGED <<vars, objects, log, nops, panicked, typeVars, exprVars, fnVars>>

ObjPushScope ==
    /\ CanMutate
    /\ objects' = Append(objects, <<>>)
    /\ nops' = nops + 1
    /\ got' = NoAnswer
    /\ UNCHANGED <<vars, log, panicked, typeVars, exprVars, fnVars>>

ObjPopScope ==
    /\ CanMutate
    /\ objects' = VecPop(objects)
    /\ nops' = nops + 1
    /\ got' = NoAnswer
    /\ UNCHANGED <<vars, log, panicked, typeVars, exprVars, fnVars>>

NextScope ==
    \/ \E var \in Names : \E ty \in Types : Insert(var, ty)
    \/ \E var \in Names : Get(var)
    \/ PushScope
    \/ PopScope
    \/ \E object \in Objects : ObjPush(object)
    \/ \E object \in Objects : ObjContains(object)
    \/ ObjPushScope
    \/ ObjPopScope

SpecScope == InitScope /\ [][NextScope]_vars_all

(***************************************************************************)
(* Claims about the scope stacks (SpecScope).                              *)
(***************************************************************************)
\* scopes pushed less scopes popped over the first p operations
Depth(p) ==
    Cardinality({q \in 1..p : log[q].op = "push_scope"})
        - Cardinality({q \in 1..p : log[q].op = "pop_scope"})

\* at no point were more scopes popped than pushed
NeverOverPopped == \A p \in 1..Len(log) : Depth(p) >= 0

\* the insertions whose scope is still on the stack
ActiveInserts ==
    {p \in 1..Len(log) :
        /\ log[p].op = "insert"
        /\ \A q \in p..Len(log) : Depth(q) >= Depth(p)}

\* what the claim says get(name) returns after the operations of the log
ExpectedGet(name) ==
    LET declaring == {p \in ActiveInserts : log[p].var = name}
    IN  IF declaring = {} THEN [some |-> FALSE, ty |-> NoType]
        ELSE LET inner == {p \in declaring :
                              \A q \in declaring : Depth(q) <= Depth(p)}
                 last  == CHOOSE p \in inner : \A q \in inner : q <= p
             IN  [some |-> TRUE, ty |-> log[last].dtype]

\* C5: while no more scopes were popped than pushed, get(name) returns the type
\* most recently inserted for the name in the innermost active scope that declares
\* it, and None when no active scope declares it.
C5_InnermostWins ==
    NeverOverPopped =>
        /\ \A name \in Names : VarLst_get(vars, name) = ExpectedGet(name)
        /\ got.op = "get" =>
               [some |-> got.some, ty |-> got.ty] = ExpectedGet(got.key)

\* x: Signed64 outside, x: Float64 in a pushed scope, then the scope is popped and
\* get(x) answers Signed64 again
C5_Witness ==
    /\ Len(log) = 4
    /\ log[1] = [op |-> "insert", var |-> "x", dtype |-> Scalar("I64")]
    /\ log[2].op = "push_scope"
    /\ log[3] = [op |-> "insert", var |-> "x", dtype |-> Scalar("F64")]
    /\ log[4].op = "pop_scope"
    /\ got = [op |-> "get", key |-> "x", some |-> TRUE, ty |-> Scalar("I64")]

\* the shadowing half: inside the pushed scope get(x) answers Float64
C5_ShadowReached ==
    /\ Len(log) = 3
    /\ log[1] = [op |-> "insert", var |-> "x", dtype |-> Scalar("I64")]
    /\ log[2].op = "push_scope"
    /\ log[3] = [op |-> "insert", var |-> "x", dtype |-> Scalar("F64")]
    /\ got = [op |-> "get", key |-> "x", some |-> TRUE, ty |-> Scalar("F64")]

\* C10: after any sequence of operations both stacks hold at least one scope, and
\* no insert or push fails for want of a current scope.
C10_BaseScopeKept ==
    /\ Len(vars) >= 1
    /\ Len(objects) >= 1
    /\ ~panicked

(***************************************************************************)
(* Spec: AstNode::generate_function on a token slice, one loop iteration   *)
(* of generate_function / generate_code_block per step.                    *)
(***************************************************************************)
\* s[k] of the code (0-based) and whether the index is in bounds
At(k) == s[k + 1]

InBounds(k) == k < Len(s)

IsType(k, ty) == At(k).token_type = ty

Fail(kind) ==
    /\ pc' = "error"
    /\ err' = kind
    /\ UNCHANGED <<s, i, base, func, variable_lst>>

\* parser.rs 364-377: the `fn` keyword, the function name and the open parenthesis
FunctionHeader ==
    /\ pc = "header"
    /\ UNCHANGED <<iters, typeVars, scopeVars, exprVars>>
    /\ IF ~InBounds(0) THEN Fail("IndexOutOfBounds")
       ELSE IF ~(IsType(0, "Keyword") /\ At(0).value = "fn") THEN Fail("Structural")
       ELSE IF ~InBounds(1) THEN Fail("IndexOutOfBounds")
       ELSE IF ~IsType(1, "FunctionName") THEN Fail("Structural")
       ELSE IF ~InBounds(2) THEN Fail("IndexOutOfBounds")
       ELSE IF ~IsType(2, "OpenParen") THEN Fail("Structural")
       ELSE /\ func' = [name |-> At(1).value, parameters |-> <<>>, body |-> <<>>]
            /\ i' = 3
            /\ pc' = "params"
            /\ UNCHANGED <<s, base, variable_lst, err>>

\* parser.rs 379-396: one iteration of the parameter loop
ParameterLoop ==
    /\ pc = "params"
    /\ InBounds(i) /\ ~IsType(i, "CloseParen")
    /\ UNCHANGED <<iters, typeVars, scopeVars, exprVars>>
    /\ IF IsType(i, "Comma")
       THEN i' = i + 1 /\ UNCHANGED <<s, pc, base, func, variable_lst, err>>
       ELSE IF ~IsType(i, "DataType") THEN Fail("Structural")
       ELSE IF DataType_new(TypeText(At(i).value)).panic THEN Fail("UnknownType")
       ELSE IF ~InBounds(i + 1) THEN Fail("IndexOutOfBounds")
       ELSE IF ~IsType(i + 1, "VariableName") THEN Fail("Structural")
       ELSE /\ func' = [func EXCEPT !.parameters =
                           Append(@, Variable(At(i + 1).value,
                                              DataType_new(TypeText(At(i).value)).ty))]
            /\ i' = i + 2
            /\ UNCHANGED <<s, pc, base, variable_lst, err>>

\* the loop condition reads past the end of the slice
ParameterLoopOutOfBounds ==
    /\ pc = "params"
    /\ ~InBounds(i)
    /\ Fail("IndexOutOfBounds")
    /\ UNCHANGED <<iters, typeVars, scopeVars, exprVars>>

\* parser.rs 398-411: the loop ends at the close parenthesis; the body's open brace
\* is asserted and generate_code_block starts on &s[(i+1)..] with a fresh HashMap
EnterCodeBlock ==
    /\ pc = "params"
    /\ InBounds(i) /\ IsType(i, "CloseParen")
    /\ UNCHANGED <<iters, typeVars, scopeVars, exprVars>>
    /\ IF ~InBounds(i + 1) THEN Fail("IndexOutOfBounds")
       ELSE IF ~IsType(i + 1, "OpenCurlyBrace") THEN Fail("Structural")
       ELSE /\ base' = i + 1
            /\ i' = 1
            /\ variable_lst' = EmptyMap
            /\ pc' = "block"
            /\ UNCHANGED <<s, func, err>>

\* the statement loop's token s[i] of the block's slice
BlockInBounds(k) == InBounds(base + k)

BlockAt(k) == At(base + k)

InLoop == pc = "block" /\ iters < MaxIters

\* `s[i]` at the head of the loop reads past the end of the slice
BlockOutOfBounds ==
    /\ InLoop
    /\ ~BlockInBounds(i)
    /\ Fail("IndexOutOfBounds")
    /\ iters' = iters + 1
    /\ UNCHANGED <<typeVars, scopeVars, exprVars>>

\* parser.rs 414-417
BlockNewLine ==
    /\ InLoop
    /\ BlockInBounds(i) /\ BlockAt(i).token_type = "NewLine"
    /\ i' = i + 1
    /\ iters' = iters + 1
    /\ UNCHANGED <<s, pc, base, func, variable_lst, err, typeVars, scopeVars, exprVars>>

\* the declaration shape of parser.rs 419, given that s[i+1] and s[i+2] exist
IsDeclaration(k) ==
    /\ BlockAt(k + 1).token_type = "VariableName"
    /\ BlockAt(k + 2).token_type = "AssignmentOperator"

\* parser.rs 418-443
BlockDataType ==
    /\ InLoop
    /\ BlockInBounds(i) /\ BlockAt(i).token_type = "DataType"
    /\ iters' = iters + 1
    /\ UNCHANGED <<typeVars, scopeVars, exprVars>>
    /\ IF ~BlockInBounds(i + 1) THEN Fail("IndexOutOfBounds")
       ELSE IF BlockAt(i + 1).token_type # "VariableName" THEN Fail("Structural")
       ELSE IF ~BlockInBounds(i + 2) THEN Fail("IndexOutOfBounds")
       ELSE IF ~IsDeclaration(i) THEN Fail("Structural")
       ELSE IF DataType_new(TypeText(BlockAt(i).value)).panic THEN Fail("UnknownType")
       ELSE LET var_type == DataType_new(TypeText(BlockAt(i).value)).ty
                var_name == BlockAt(i + 1).value
                table    == MapInsert(variable_lst, var_name, var_type)
                r        == generate_expression(
                                SubSeq(s, base + i + 4, Len(s)), table)
            IN  IF r.err # "none"
                THEN /\ pc' = "error"
                     /\ err' = r.err
                     /\ variable_lst' = table
                     /\ UNCHANGED <<s, i, base, func>>
                ELSE /\ variable_lst' = table
                     /\ func' = [func EXCEPT !.body =
                                    Append(@, [kind |-> "AssignmentStatement",
                                               dst |-> Variable(var_name, var_type),
                                               src |-> r.val])]
                     /\ i' = i + 3 + r.n
                     /\ UNCHANGED <<s, pc, base, err>>

\* parser.rs 444: the loop ends and the Function is returned
BlockCloseCurlyBrace ==
    /\ InLoop
    /\ BlockInBounds(i) /\ BlockAt(i).token_type = "CloseCurlyBrace"
    /\ pc' = "done"
    /\ iters' = iters + 1
    /\ UNCHANGED <<s, i, base, func, variable_lst, err, typeVars, scopeVars, exprVars>>

\* parser.rs 445: `_ => {}`, the loop goes round with i as it was
BlockOtherToken ==
    /\ InLoop
    /\ BlockInBounds(i)
    /\ BlockAt(i).token_type \notin {"NewLine", "DataType", "CloseCurlyBrace"}
    /\ iters' = iters + 1
    /\ UNCHANGED <<s, pc, i, base, func, variable_lst, err, typeVars, scopeVars, exprVars>>

Next ==
    \/ FunctionHeader
    \/ ParameterLoop
    \/ ParameterLoopOutOfBounds
    \/ EnterCodeBlock
    \/ BlockOutOfBounds
    \/ BlockNewLine
    \/ BlockDataType
    \/ BlockCloseCurlyBrace
    \/ BlockOtherToken

(***************************************************************************)
(* The token slices generate_function is run on: a header, then `{`, up to *)
(* MaxChunks statement-level chunks and, or not, the closing `}`.          *)
(***************************************************************************)
KwFn == Tok("Keyword", "fn")
FnAdd == Tok("FunctionName", "add")
OpenParen == Tok("OpenParen", "(")
CloseParen == Tok("CloseParen", ")")
OpenCurly == Tok("OpenCurlyBrace", "{")
CloseCurly == Tok("CloseCurlyBrace", "}")
Comma == Tok("Comma", ",")
SemiColon == Tok("SemiColon", ";")
NewLine == Tok("NewLine", "\n")
Assign == Tok("AssignmentOperator", "=")
TyInt == Tok("DataType", "int")
TyFloat == Tok("DataType", "float")
VarB == Tok("VariableName", "b")
VarC == Tok("VariableName", "c")

Headers ==
    {<<KwFn, FnAdd, OpenParen, CloseParen>>,
     <<KwFn, FnAdd, OpenParen, TyInt, VarA, Comma, TyInt, VarB, CloseParen>>,
     <<KwFn, FnAdd, OpenParen, Tok("DataType", "int[]"), VarA, CloseParen>>,
     <<KwFn, FnAdd, OpenParen, Tok("DataType", "number"), VarA, CloseParen>>,
     <<KwFn, FnAdd, OpenParen, VarA, CloseParen>>,
     <<KwFn, FnAdd, OpenParen, TyInt, VarA>>,
     <<FnAdd, OpenParen, CloseParen>>}

Initializers ==
    {<<VarA, Plus, VarB>>, <<Int2>>, <<VarC, Plus, Int2>>, <<VarZz>>}

Terminators == {<<>>, <<NewLine>>, <<SemiColon>>, <<Comma>>, <<OpenCurly>>}

Declarations ==
    {<<ty, VarC, Assign>> \o e \o term :
        ty \in {TyInt, TyFloat}, e \in Initializers, term \in Terminators}

Chunks ==
    Declarations \cup
    {<<NewLine>>, <<SemiColon>>, <<VarA>>, <<Tok("Keyword", "if")>>,
     <<Tok("FunctionName", "print"), OpenParen, CloseParen>>, <<TyInt, VarC>>,
     <<TyInt, Int2>>}

RECURSIVE Flatten(_)
Flatten(seqs) == IF seqs = <<>> THEN <<>> ELSE Head(seqs) \o Flatten(Tail(seqs))

\* slices that end before the body
Truncated ==
    {<<>>, <<KwFn>>, <<KwFn, FnAdd>>, <<KwFn, FnAdd, OpenParen>>,
     <<KwFn, FnAdd, OpenParen, TyInt>>, <<KwFn, FnAdd, OpenParen, TyInt, VarA>>,
     <<KwFn, FnAdd, OpenParen, CloseParen>>}

Programs ==
    Truncated \cup
    {h \o <<OpenCurly>> \o Flatten(b) \o end :
        h \in Headers, b \in SeqsUpTo(Chunks, MaxChunks),
        end \in {<<>>, <<CloseCurly>>}}

Init ==
    /\ s \in Programs
    /\ pc = "header"
    /\ i = 0
    /\ base = 0
    /\ func = NoFunction
    /\ variable_lst = EmptyMap
    /\ iters = 0
    /\ err = "none"
    /\ TypeIdle /\ ScopeIdle /\ ExprIdle

Spec == Init /\ [][Next]_vars_all

(***************************************************************************)
(* Claims about generate_function and generate_code_block (Spec).          *)
(***************************************************************************)
\* fn add ( int a , int b ) { int c = a + b }
AddTokens ==
    <<KwFn, FnAdd, OpenParen, TyInt, VarA, Comma, TyInt, VarB, CloseParen,
      OpenCurly, TyInt, VarC, Assign, VarA, Plus, VarB, CloseCurly>>

AddFunction ==
    [name |-> "add",
     parameters |-> <<Variable("a", Scalar("I64")), Variable("b", Scalar("I64"))>>,
     body |-> <<[kind |-> "AssignmentStatement",
                 dst |-> Variable("c", Scalar("I64")),
                 src |-> Operation(Variable("a", Scalar("I64")),
                                   Variable("b", Scalar("I64")), "+",
                                   Scalar("I64"))]>>]

Finished == pc \in {"done", "error"}

\* C1: the build of `fn add ( int a , int b ) { int c = a + b }` succeeds and
\* returns the Function add with parameters a, b: Signed64 and the one statement
\* c: Signed64 = Operation(a, Add, b) of type Signed64.
C1_AddBuilds ==
    (s = AddTokens /\ Finished) => (pc = "done" /\ func = AddFunction)

\* the token at the statement start is neither a newline, nor a closing brace, nor
\* a data type followed by a variable name and an assignment operator
OtherStatementStart ==
    /\ BlockInBounds(i)
    /\ BlockAt(i).token_type \notin {"NewLine", "CloseCurlyBrace"}
    /\ ~(/\ BlockAt(i).token_type = "DataType"
         /\ BlockInBounds(i + 2)
         /\ IsDeclaration(i))

\* C2: an iteration of the statement loop that meets any such token ends the build
\* with a fatal error.
C2_OtherStatementIsFatal ==
    [][(pc = "block" /\ iters' = iters + 1 /\ OtherStatementStart) => pc' = "error"]_vars_all

\* C8: every iteration of the statement loop advances the token index or leaves the
\* loop, so the build finishes on every finite token sequence.
C8_LoopMakesProgress ==
    [][(pc = "block" /\ iters' = iters + 1) => (i' > i \/ pc' # "block")]_vars_all

====
